---- MODULE Spec2Model ----
(***************************************************************************)
(* License-plate error detection and correction (src/main.py).             *)
(*                                                                         *)
(* Strings are sequences of one-character strings.  A DateTime text        *)
(* 'YYYY-MM-DD HH:MM:SS' is modelled by its minute and second fields       *)
(* <<mm, ss>> (same day, same hour); parsing turns it into a number of     *)
(* seconds and fails when a field is out of range.  A similarity, a float  *)
(* in the code, is kept as the exact fraction [num, den].                  *)
(***************************************************************************)
EXTENDS Integers, Sequences, FiniteSets, TLC

VARIABLES
    license_plates,       \* table license_plates: rows [id, DateTime, LicensePlate]
    corrected_plates,     \* table corrected_plates as committed (visible to any reader)
    txn,                  \* the open connection's uncommitted view of corrected_plates
    pc,                   \* position in the pipeline
    records,              \* rows fetched by find_license_plate_errors
    errors,               \* list returned by find_license_plate_errors
    time_window_minutes,  \* argument of the last find_license_plate_errors call
    similarity_threshold, \* argument of the last find_license_plate_errors call
    error_index,          \* update_license_plates_with_scores: index of the next error
    prior,                \* history: corrected_plates when the current call started
    sa, sb, sres          \* scorer under test: the arguments and the result

vars == <<license_plates, corrected_plates, txn, pc, records, errors,
          time_window_minutes, similarity_threshold, error_index, prior, sa, sb, sres>>

pipelineVars == <<license_plates, corrected_plates, txn, records, errors,
                  time_window_minutes, similarity_threshold, error_index, prior>>

scorerVars == <<sa, sb, sres>>

(***************************************************************************)
(* Bounds                                                                  *)
(***************************************************************************)
MaxLen == 3        \* longest string given to the scorer under test
MaxRows == 3       \* most rows ever loaded into license_plates
MaxRecords == 6    \* most records given to the matcher under test

Alphabet == {"A", "B", "C", "D"}

Min(x, y) == IF x <= y THEN x ELSE y

SeqsUpTo(S, n) == UNION {[1..m -> S] : m \in 0..n}

NoTxn == [open |-> FALSE, rows |-> <<>>]

NoResult == [num |-> 0, den |-> 0]

(***************************************************************************)
(* Similarity Scorer: SequenceMatcher(None, a, b).ratio() * 100            *)
(***************************************************************************)

\* length of the common run of a[i..ahi] and b[j..bhi] starting at (i, j)
RECURSIVE CommonRun(_, _, _, _, _, _)
CommonRun(a, b, i, j, ahi, bhi) ==
    IF i > ahi \/ j > bhi THEN 0
    ELSE IF a[i] # b[j] THEN 0
    ELSE 1 + CommonRun(a, b, i + 1, j + 1, ahi, bhi)

\* find_longest_match(alo, ahi, blo, bhi) with no junk: the longest block,
\* of those the one starting earliest in a, and of those earliest in b.
\* Bounds are inclusive here; an empty range has hi < lo.
FindLongestMatch(a, b, alo, ahi, blo, bhi) ==
    LET cand == (alo..ahi) \X (blo..bhi)
        size(p) == CommonRun(a, b, p[1], p[2], ahi, bhi)
    IN
    IF \A p \in cand : size(p) = 0
    THEN [i |-> alo, j |-> blo, k |-> 0]
    ELSE LET best == CHOOSE p \in cand :
                        /\ size(p) > 0
                        /\ \A q \in cand :
                              \/ size(q) < size(p)
                              \/ /\ size(q) = size(p)
                                 /\ \/ q[1] > p[1]
                                    \/ q[1] = p[1] /\ q[2] >= p[2]
         IN
         [i |-> best[1], j |-> best[2], k |-> size(best)]

\* get_matching_blocks: total size of the blocks found by recursing to the
\* left and to the right of the longest block
RECURSIVE Matches(_, _, _, _, _, _)
Matches(a, b, alo, ahi, blo, bhi) ==
    IF alo > ahi \/ blo > bhi THEN 0
    ELSE LET m == FindLongestMatch(a, b, alo, ahi, blo, bhi)
         IN IF m.k = 0 THEN 0
            ELSE m.k
                 + Matches(a, b, alo, m.i - 1, blo, m.j - 1)
                 + Matches(a, b, m.i + m.k, ahi, m.j + m.k, bhi)

RatioBugHalf(m, length) ==
    IF length = 0 THEN [num |-> 100, den |-> 1]
    ELSE [num |-> 100 * m, den |-> length]

\* _calculate_ratio(matches, length) * 100: 2.0 * matches / length, or 1.0
\* when both strings are empty
Ratio(m, length) ==
    IF length = 0 THEN [num |-> 100, den |-> 1]
    ELSE [num |-> 200 * m, den |-> length]

LengthBugFirst(a, b) == 2 * Len(a)

\* the denominator of ratio(): len(a) + len(b)
TotalLength(a, b) == Len(a) + Len(b)

Score(a, b) ==
    Ratio(Matches(a, b, 1, Len(a), 1, Len(b)), TotalLength(a, b))

RatGeq(x, y) == x.num * y.den >= y.num * x.den
RatEq(x, y) == x.num * y.den = y.num * x.den
RatOfInt(n) == [num |-> n, den |-> 1]
\* int(similarity)
Trunc(x) == x.num \div x.den

(***************************************************************************)
(* The scorer on its own: any two strings, one call.                       *)
(***************************************************************************)
Strings == SeqsUpTo(Alphabet, MaxLen)

ScorerInit ==
    /\ sa \in Strings
    /\ sb \in Strings
    /\ sres = NoResult
    /\ pc = "score_call"
    /\ license_plates = <<>>
    /\ corrected_plates = <<>>
    /\ txn = NoTxn
    /\ records = <<>>
    /\ errors = <<>>
    /\ time_window_minutes = 0
    /\ similarity_threshold = 0
    /\ error_index = 0
    /\ prior = <<>>

ScoreCall ==
    /\ pc = "score_call"
    /\ sres' = Score(sa, sb)
    /\ pc' = "scored"
    /\ UNCHANGED <<sa, sb>>
    /\ UNCHANGED pipelineVars

ScorerNext == ScoreCall

ScorerSpec == ScorerInit /\ [][ScorerNext]_vars

(***************************************************************************)
(* Timestamps                                                              *)
(***************************************************************************)

ParseTimeBugLenient(text) ==
    [ok |-> TRUE, secs |-> text[1] * 60 + text[2]]

\* datetime.strptime(text, '%Y-%m-%d %H:%M:%S'): the instant, in seconds, or
\* ValueError (ok = FALSE) when a field is not in 00..59
ParseTime(text) ==
    [ok |-> text[1] \in 0..59 /\ text[2] \in 0..59,
     secs |-> text[1] * 60 + text[2]]

\* time.strftime('%Y-%m-%d %H:%M:%S')
FormatTime(secs) == <<secs \div 60, secs % 60>>

\* order of two DateTime texts of two-digit fields, as ORDER BY DateTime
\* compares them
TextLeq(x, y) == x[1] < y[1] \/ (x[1] = y[1] /\ x[2] <= y[2])

(***************************************************************************)
(* Window Matcher: the loops of find_license_plate_errors                  *)
(***************************************************************************)

\* the plate texts of the model
Plates == {<<"A", "B">>, <<"A", "C">>, <<"A", "B", "C">>}

\* Score, tabulated once over the plates of the model
PlateScore == [a \in Plates, b \in Plates |-> Score(a, b)]

LookaheadBugThree == 4 - 1

\* records[i+1:i+5]: the next 4 records
Lookahead == 4

OutsideWindowBugHours(t1, t2, w) == t2 - t1 > w * 3600

\* time_diff > timedelta(minutes=time_window_minutes)
OutsideWindow(t1, t2, w) == t2 - t1 > w * 60

MeetsThresholdBugStrict(similarity, threshold) ==
    ~RatGeq(RatOfInt(threshold), similarity)

\* similarity >= similarity_threshold
MeetsThreshold(similarity, threshold) ==
    RatGeq(similarity, RatOfInt(threshold))

EmitBugPrepend(acc, m) == <<m>> \o acc

\* errors.append({...})
Emit(acc, m) == Append(acc, m)

MakeError(r1, t1, r2, t2, similarity) ==
    [id1 |-> r1.id, id2 |-> r2.id,
     time1 |-> FormatTime(t1), time2 |-> FormatTime(t2),
     plate1 |-> r1.LicensePlate, plate2 |-> r2.LicensePlate,
     similarity |-> similarity]

\* the inner loop from candidate j on, for the outer record i parsed as t1
RECURSIVE InnerLoop(_, _, _, _, _, _, _)
InnerLoop(recs, i, j, t1, w, th, acc) ==
    IF j > Min(i + Lookahead, Len(recs))
    THEN [raised |-> FALSE, errors |-> acc]
    ELSE LET p2 == ParseTime(recs[j].DateTime)
             similarity == PlateScore[recs[i].LicensePlate, recs[j].LicensePlate]
         IN IF ~p2.ok THEN [raised |-> TRUE, errors |-> acc]
            ELSE IF OutsideWindow(t1, p2.secs, w)
            THEN [raised |-> FALSE, errors |-> acc]
            ELSE IF /\ recs[i].LicensePlate # recs[j].LicensePlate
                    /\ MeetsThreshold(similarity, th)
            THEN InnerLoop(recs, i, j + 1, t1, w, th,
                           Emit(acc, MakeError(recs[i], t1, recs[j], p2.secs,
                                               similarity)))
            ELSE InnerLoop(recs, i, j + 1, t1, w, th, acc)

\* the outer loop from record i on
RECURSIVE OuterLoop(_, _, _, _, _)
OuterLoop(recs, i, w, th, acc) ==
    IF i > Len(recs) THEN [raised |-> FALSE, errors |-> acc]
    ELSE LET p1 == ParseTime(recs[i].DateTime)
         IN IF ~p1.ok THEN [raised |-> TRUE, errors |-> acc]
            ELSE LET r == InnerLoop(recs, i, i + 1, p1.secs, w, th, acc)
                 IN IF r.raised THEN r
                    ELSE OuterLoop(recs, i + 1, w, th, r.errors)

FindErrors(recs, w, th) == OuterLoop(recs, 1, w, th, <<>>)

(***************************************************************************)
(* The matcher on its own: any records sorted ascending by timestamp.      *)
(***************************************************************************)
Timestamps == {<<0, 0>>, <<0, 20>>, <<5, 20>>}
Windows == {5}
Thresholds == {50, 70}

SortedByTimestamp(ts) ==
    \A k \in 1..(Len(ts) - 1) :
        ParseTime(ts[k]).secs <= ParseTime(ts[k + 1]).secs

MatcherInit ==
    /\ \E n \in 0..MaxRecords :
         \E ts \in {t \in [1..n -> Timestamps] : SortedByTimestamp(t)} :
           \E ps \in [1..n -> Plates] :
             records = [k \in 1..n |->
                          [id |-> k, DateTime |-> ts[k], LicensePlate |-> ps[k]]]
    /\ license_plates = records
    /\ pc = "fetched"
    /\ errors = <<>>
    /\ time_window_minutes = 0
    /\ similarity_threshold = 0
    /\ corrected_plates = <<>>
    /\ txn = NoTxn
    /\ error_index = 0
    /\ prior = <<>>
    /\ sa = <<>>
    /\ sb = <<>>
    /\ sres = NoResult

\* the body of find_license_plate_errors(w, th) once recs are fetched
FindFrom(recs, w, th) ==
    /\ LET r == FindErrors(recs, w, th)
       IN IF r.raised
          THEN /\ pc' = "raised"
               /\ errors' = errors
          ELSE /\ pc' = "found"
               /\ errors' = r.errors
    /\ records' = recs
    /\ time_window_minutes' = w
    /\ similarity_threshold' = th
    /\ prior' = corrected_plates
    /\ UNCHANGED <<license_plates, corrected_plates, txn, error_index>>
    /\ UNCHANGED scorerVars

MatchRecords(w, th) ==
    /\ pc = "fetched"
    /\ FindFrom(records, w, th)

MatcherNext == \E w \in Windows : \E th \in Thresholds : MatchRecords(w, th)

MatcherSpec == MatcherInit /\ [][MatcherNext]_vars

(***************************************************************************)
(* Correction Resolver and Correction Sink:                                *)
(* update_license_plates_with_scores                                       *)
(***************************************************************************)

\* correction_type by comparing the two lengths
CorrectionType(original, candidate) ==
    IF Len(original) > Len(candidate) THEN "missing_chars"
    ELSE IF Len(original) < Len(candidate) THEN "added_chars"
    ELSE "char_swap"

CorrectedBugStrict(original, candidate) ==
    IF Len(original) > Len(candidate) THEN original ELSE candidate

\* corrected = original if len(original) >= len(candidate) else candidate
Corrected(original, candidate) ==
    IF Len(original) >= Len(candidate) THEN original ELSE candidate

\* the values of one INSERT INTO corrected_plates
Resolve(error) ==
    [original_id |-> error.id1,
     timestamp |-> error.time1,
     original_plate |-> error.plate1,
     corrected_plate |-> Corrected(error.plate1, error.plate2),
     confidence_score |-> Trunc(error.similarity),
     correction_type |-> CorrectionType(error.plate1, error.plate2)]

\* id INTEGER PRIMARY KEY without AUTOINCREMENT: one more than the largest
\* id in the table, 1 in an empty table
NextRowid(rows) ==
    IF rows = <<>> THEN 1
    ELSE 1 + CHOOSE m \in {rows[n].id : n \in DOMAIN rows} :
                 \A n \in DOMAIN rows : rows[n].id <= m

InsertRow(rows, c) ==
    Append(rows, [id |-> NextRowid(rows),
                  original_id |-> c.original_id,
                  timestamp |-> c.timestamp,
                  original_plate |-> c.original_plate,
                  corrected_plate |-> c.corrected_plate,
                  confidence_score |-> c.confidence_score,
                  correction_type |-> c.correction_type])

DeleteAllBugKeep(rows) == rows

\* DELETE FROM corrected_plates
DeleteAll(rows) == <<>>

AfterExecuteBugAutocommit(committed, pending) == pending

\* what other readers see after cursor.execute of a DELETE or an INSERT on a
\* connection opened by sqlite3.connect(db_name): the statement runs in an
\* implicit transaction, so the committed table is as before
AfterExecute(committed, pending) == committed

(***************************************************************************)
(* The pipeline of the main block, and the calls repeated.                 *)
(***************************************************************************)
MalformedTime == <<0, 99>>
CsvTimes == {<<0, 0>>, <<0, 20>>, <<1, 20>>, <<5, 20>>, MalformedTime}

CsvRows == [DateTime : CsvTimes, LicensePlate : Plates]

\* create_table() on a fresh database
Init ==
    /\ license_plates = <<>>
    /\ corrected_plates = <<>>
    /\ txn = NoTxn
    /\ pc = "created"
    /\ records = <<>>
    /\ errors = <<>>
    /\ time_window_minutes = 0
    /\ similarity_threshold = 0
    /\ error_index = 0
    /\ prior = <<>>
    /\ sa = <<>>
    /\ sb = <<>>
    /\ sres = NoResult

\* the locals of a call that has returned or raised are gone
ForgetLocals ==
    /\ records' = <<>>
    /\ errors' = <<>>
    /\ time_window_minutes' = 0
    /\ similarity_threshold' = 0
    /\ error_index' = 0
    /\ prior' = <<>>

\* create_table() again: corrected_plates is dropped and created empty,
\* license_plates is kept
create_table ==
    /\ pc \in {"updated", "skipped", "failed", "raised"}
    /\ corrected_plates' = <<>>
    /\ pc' = "created"
    /\ ForgetLocals
    /\ UNCHANGED <<license_plates, txn>>
    /\ UNCHANGED scorerVars

\* create_csv writes strictly increasing timestamps: the files of the model
\* never hold the same DateTime twice
DistinctDateTimes(rows) ==
    \A x, y \in DOMAIN rows : x # y => rows[x].DateTime # rows[y].DateTime

\* load_csv_to_db(csv): one INSERT per row of the file, then commit
load_csv_to_db(csv) ==
    /\ pc \in {"created", "loaded"}
    /\ Len(license_plates) + Len(csv) <= MaxRows
    /\ DistinctDateTimes(license_plates \o csv)
    /\ license_plates' = license_plates \o
          [n \in 1..Len(csv) |->
              [id |-> Len(license_plates) + n,
               DateTime |-> csv[n].DateTime,
               LicensePlate |-> csv[n].LicensePlate]]
    /\ pc' = "loaded"
    /\ UNCHANGED <<corrected_plates, txn, records, errors, time_window_minutes,
                   similarity_threshold, error_index, prior>>
    /\ UNCHANGED scorerVars

\* SELECT id, DateTime, LicensePlate FROM license_plates ORDER BY DateTime:
\* every arrangement of the rows that is ascending in the DateTime text (the
\* order of rows with equal DateTime is not defined)
OrderByDateTime(table) ==
    LET n == Len(table)
        perms == {f \in [1..n -> 1..n] : \A x, y \in 1..n : x # y => f[x] # f[y]}
    IN {[x \in 1..n |-> table[f[x]]] : f \in
           {g \in perms : \A x \in 1..(n - 1) :
                TextLeq(table[g[x]].DateTime, table[g[x + 1]].DateTime)}}

find_license_plate_errors(w, th) ==
    /\ pc = "loaded"
    /\ \E recs \in OrderByDateTime(license_plates) : FindFrom(recs, w, th)

\* the main block: 'if errors:' is false, the update is not called
main_skip_update ==
    /\ pc = "found"
    /\ errors = <<>>
    /\ pc' = "skipped"
    /\ UNCHANGED pipelineVars
    /\ UNCHANGED scorerVars

\* update_license_plates_with_scores(errors) up to the DELETE (called by the
\* main block when errors is not empty, or directly with any list)
update_begin ==
    /\ pc = "found"
    /\ prior' = corrected_plates
    /\ txn' = [open |-> TRUE, rows |-> DeleteAll(corrected_plates)]
    /\ corrected_plates' = AfterExecute(corrected_plates, txn'.rows)
    /\ error_index' = 1
    /\ pc' = "inserting"
    /\ UNCHANGED <<license_plates, records, errors, time_window_minutes,
                   similarity_threshold>>
    /\ UNCHANGED scorerVars

\* one iteration of 'for error in errors': resolve and INSERT
update_insert ==
    /\ pc = "inserting"
    /\ error_index <= Len(errors)
    /\ txn' = [open |-> TRUE,
               rows |-> InsertRow(txn.rows, Resolve(errors[error_index]))]
    /\ corrected_plates' = AfterExecute(corrected_plates, txn'.rows)
    /\ error_index' = error_index + 1
    /\ UNCHANGED <<license_plates, pc, records, errors, time_window_minutes,
                   similarity_threshold, prior>>
    /\ UNCHANGED scorerVars

\* conn.commit() after the loop
update_commit ==
    /\ pc = "inserting"
    /\ error_index > Len(errors)
    /\ corrected_plates' = txn.rows
    /\ txn' = NoTxn
    /\ pc' = "updated"
    /\ UNCHANGED <<license_plates, records, errors, time_window_minutes,
                   similarity_threshold, error_index, prior>>
    /\ UNCHANGED scorerVars

\* a statement or the process fails after the DELETE and before the commit:
\* the exception leaves the function, nothing commits, and the connection's
\* open transaction is rolled back when it is closed
update_fail ==
    /\ pc = "inserting"
    /\ txn' = NoTxn
    /\ pc' = "failed"
    /\ UNCHANGED <<license_plates, corrected_plates, records, errors,
                   time_window_minutes, similarity_threshold, error_index, prior>>
    /\ UNCHANGED scorerVars

\* the functions are called again on the same database
call_again ==
    /\ pc \in {"updated", "skipped", "failed", "raised"}
    /\ pc' = "loaded"
    /\ ForgetLocals
    /\ UNCHANGED <<license_plates, corrected_plates, txn>>
    /\ UNCHANGED scorerVars

Next ==
    \/ create_table
    \/ /\ pc \in {"created", "loaded"}
       /\ \E csv \in SeqsUpTo(CsvRows, MaxRows - Len(license_plates)) :
            load_csv_to_db(csv)
    \/ \E w \in Windows : \E th \in Thresholds : find_license_plate_errors(w, th)
    \/ main_skip_update
    \/ update_begin
    \/ update_insert
    \/ update_commit
    \/ update_fail
    \/ call_again

Spec == Init /\ [][Next]_vars

(***************************************************************************)
(* Properties                                                              *)
(***************************************************************************)

\* the timestamp of fetched record x, in seconds
TimeOf(x) == ParseTime(records[x].DateTime).secs

\* the position in records of the record with this id
Pos(id) == CHOOSE x \in DOMAIN records : records[x].id = id

\* errors[n] is the match of records i and j
IsMatchOf(n, i, j) ==
    /\ errors[n].id1 = records[i].id
    /\ errors[n].id2 = records[j].id
    /\ errors[n].plate1 = records[i].LicensePlate
    /\ errors[n].plate2 = records[j].LicensePlate

\* j is one of the 4 records after i, within the window, with another plate
Candidate(i, j) ==
    /\ i < j
    /\ j <= i + 4
    /\ TimeOf(j) - TimeOf(i) <= time_window_minutes * 60
    /\ records[i].LicensePlate # records[j].LicensePlate

PairScore(i, j) == PlateScore[records[i].LicensePlate, records[j].LicensePlate]

\* C1: for records sorted ascending by timestamp, every pair (i, j) with
\* i < j <= i+4, within the window, with differing plates and a score at or
\* above the threshold is among the emitted matches; the break on the first
\* candidate outside the window skips none of them.
C1_BoundedCompleteness ==
    pc = "found" =>
        \A i, j \in DOMAIN records :
            (Candidate(i, j) /\ RatGeq(PairScore(i, j), RatOfInt(similarity_threshold)))
                => \E n \in DOMAIN errors : IsMatchOf(n, i, j)

\* C1 witness: the inner loop broke at a candidate outside the window while
\* candidates of the same lookahead were still to come, after emitting a match
\* for the same outer record.
C1_Witness ==
    /\ pc = "found"
    /\ \E i, j, j2 \in DOMAIN records :
          /\ i < j /\ j < j2 /\ j2 <= i + 4
          /\ TimeOf(j) - TimeOf(i) <= time_window_minutes * 60
          /\ TimeOf(j2) - TimeOf(i) > time_window_minutes * 60
          /\ j2 < Len(records) /\ j2 < i + 4
          /\ \E n \in DOMAIN errors : IsMatchOf(n, i, j)

\* C2: for records sorted ascending by timestamp, every emitted match has
\* first.timestamp <= second.timestamp, second.timestamp - first.timestamp
\* <= window, and first.plate # second.plate.
C2_MatchInvariant ==
    pc = "found" =>
        \A n \in DOMAIN errors :
            LET t1 == ParseTime(errors[n].time1).secs
                t2 == ParseTime(errors[n].time2).secs
            IN /\ t1 <= t2
               /\ t2 - t1 <= time_window_minutes * 60
               /\ errors[n].plate1 # errors[n].plate2
               /\ t1 = TimeOf(Pos(errors[n].id1))
               /\ t2 = TimeOf(Pos(errors[n].id2))

\* C2 witness: a match whose two readings are exactly one window apart was
\* emitted, a similar pair further apart was not, and a pair of identical
\* plates within the window was skipped.
C2_Witness ==
    /\ pc = "found"
    /\ \E n \in DOMAIN errors :
          ParseTime(errors[n].time2).secs - ParseTime(errors[n].time1).secs
              = time_window_minutes * 60
    /\ \E i, j \in DOMAIN records :
          /\ i < j /\ j <= i + 4
          /\ TimeOf(j) - TimeOf(i) > time_window_minutes * 60
          /\ records[i].LicensePlate # records[j].LicensePlate
          /\ RatGeq(PairScore(i, j), RatOfInt(similarity_threshold))
    /\ \E i, j \in DOMAIN records :
          /\ i < j /\ j <= i + 4
          /\ TimeOf(j) - TimeOf(i) <= time_window_minutes * 60
          /\ records[i].LicensePlate = records[j].LicensePlate

\* C3: every emitted match has similarity >= threshold, and a pair within the
\* lookahead and the window, with differing plates, whose similarity is
\* exactly the threshold is emitted.
C3_ThresholdInclusive ==
    pc = "found" =>
        /\ \A n \in DOMAIN errors :
              /\ RatGeq(errors[n].similarity, RatOfInt(similarity_threshold))
              /\ RatEq(errors[n].similarity,
                       PlateScore[errors[n].plate1, errors[n].plate2])
        /\ \A i, j \in DOMAIN records :
              (Candidate(i, j) /\ RatEq(PairScore(i, j), RatOfInt(similarity_threshold)))
                  => \E n \in DOMAIN errors : IsMatchOf(n, i, j)

\* C3 witness: a match whose similarity is exactly the threshold was emitted.
C3_Witness ==
    /\ pc = "found"
    /\ \E n \in DOMAIN errors :
          RatEq(errors[n].similarity, RatOfInt(similarity_threshold))

\* the index pair of match n comes before that of match m
PairBefore(n, m) ==
    LET i1 == Pos(errors[n].id1)
        j1 == Pos(errors[n].id2)
        i2 == Pos(errors[m].id1)
        j2 == Pos(errors[m].id2)
    IN i1 < i2 \/ (i1 = i2 /\ j1 < j2)

AsFirst(x) == {n \in DOMAIN errors : errors[n].id1 = records[x].id}
AsSecond(x) == {n \in DOMAIN errors : errors[n].id2 = records[x].id}

\* C9: the matches are returned in strictly increasing order of the index
\* pair (i, j) of their records (i ascending, then j ascending), so no pair
\* is emitted twice; a record is the first side of at most 4 matches and the
\* second side of at most 4.
C9_EmissionOrder ==
    pc = "found" =>
        /\ \A n, m \in DOMAIN errors : n < m => PairBefore(n, m)
        /\ \A x \in DOMAIN records :
              /\ Cardinality(AsFirst(x)) <= 4
              /\ Cardinality(AsSecond(x)) <= 4

\* C9 witness: among at least 6 records, one is the first side of 4 matches
\* and has a fifth successor, and one is the second side of 4 matches and has
\* a fifth predecessor.
C9_Witness ==
    /\ pc = "found"
    /\ \E x \in DOMAIN records :
          Cardinality(AsFirst(x)) = 4 /\ x + 5 <= Len(records)
    /\ \E x \in DOMAIN records :
          Cardinality(AsSecond(x)) = 4 /\ x > 5

\* C4: when update_license_plates_with_scores fails after the DELETE or after
\* some of the INSERTs, before the commit, the visible corrections are the
\* complete prior set.
C4_AtomicReplace ==
    pc = "failed" => corrected_plates = prior

\* C4 witness: the update failed with prior corrections in the store, after
\* inserting some but not all of the new ones.
C4_Witness ==
    /\ pc = "failed"
    /\ prior # <<>>
    /\ error_index >= 2
    /\ error_index <= Len(errors)

\* one correction per element of the list, in its order, with ids from 1
ExpectedStore(list) ==
    [n \in 1..Len(list) |->
        [id |-> n,
         original_id |-> list[n].id1,
         timestamp |-> list[n].time1,
         original_plate |-> list[n].plate1,
         corrected_plate |-> Resolve(list[n]).corrected_plate,
         confidence_score |-> Resolve(list[n]).confidence_score,
         correction_type |-> Resolve(list[n]).correction_type]]

\* C5: after a successful update_license_plates_with_scores(errors) the store
\* holds exactly one correction per element of errors, in the same order,
\* with ids 1..n, and nothing from before the call, whatever it held; so a
\* second call with the same errors leaves the state of the first.
C5_ReplaceAll ==
    pc = "updated" => corrected_plates = ExpectedStore(errors)

\* C5 witness: a successful update over a store that already held the
\* corrections of the same errors.
C5_Witness ==
    /\ pc = "updated"
    /\ errors # <<>>
    /\ prior # <<>>
    /\ prior = corrected_plates

\* the corrections written by the current call, while and after it runs
Written ==
    IF pc = "inserting" THEN txn.rows
    ELSE IF pc = "updated" THEN corrected_plates
    ELSE <<>>

\* C6: for every match, correction_type is missing_chars when plate1 is
\* longer, added_chars when it is shorter and char_swap when the lengths are
\* equal; corrected_plate is plate1 when it is not shorter and plate2
\* otherwise, so it is at least as long as the shorter plate.
C6_Resolution ==
    \A n \in DOMAIN Written :
        LET c == Written[n]
            p1 == errors[n].plate1
            p2 == errors[n].plate2
        IN /\ c.correction_type \in {"missing_chars", "added_chars", "char_swap", "unknown"}
           /\ Len(p1) > Len(p2) => c.correction_type = "missing_chars"
           /\ Len(p1) < Len(p2) => c.correction_type = "added_chars"
           /\ Len(p1) = Len(p2) => c.correction_type = "char_swap"
           /\ Len(p1) >= Len(p2) => c.corrected_plate = p1
           /\ Len(p1) < Len(p2) => c.corrected_plate = p2
           /\ Len(c.corrected_plate) >= Min(Len(p1), Len(p2))

\* C6 witness: a committed store with a correction of each of the three
\* types, the char_swap one keeping the first plate.
C6_Witness ==
    /\ pc = "updated"
    /\ \A t \in {"missing_chars", "added_chars", "char_swap"} :
          \E n \in DOMAIN corrected_plates :
              corrected_plates[n].correction_type = t

\* some row's DateTime has a minute or second field outside 00..59
HasMalformed(table) ==
    \E x \in DOMAIN table :
        table[x].DateTime[1] \notin 0..59 \/ table[x].DateTime[2] \notin 0..59

\* C10: when the timestamp of any stored record fails to parse,
\* find_license_plate_errors raises and returns no list, the update is never
\* started, and the corrections store is as it was before the matching step.
C10_MalformedAborts ==
    /\ HasMalformed(license_plates) => pc \in {"created", "loaded", "raised"}
    /\ pc = "raised" =>
          /\ HasMalformed(records)
          /\ corrected_plates = prior
          /\ txn = NoTxn

\* C10 witness: the run raised on a malformed timestamp that is not the
\* first record, with corrections of an earlier run in the store.
C10_Witness ==
    /\ pc = "raised"
    /\ corrected_plates # <<>>
    /\ Len(records) >= 2
    /\ ~HasMalformed(<<records[1]>>)

\* C7 as stated: score(a, b) = score(b, a) for all strings a and b.
C7_Symmetric ==
    pc = "scored" => RatEq(sres, Score(sb, sa))

\* C7 amended: score(a, b) = score(b, a) for all strings a and b of at most
\* 2 characters each.
C7_SymmetricShort ==
    (pc = "scored" /\ Len(sa) <= 2 /\ Len(sb) <= 2) => RatEq(sres, Score(sb, sa))

\* C7 witness: two different strings of 2 characters with a common character
\* were scored.
C7_Witness ==
    /\ pc = "scored"
    /\ Len(sa) = 2 /\ Len(sb) = 2
    /\ sa # sb
    /\ sres.num > 0

\* C8: 0 <= score(a, b) <= 100 for all strings, and score(a, a) = 100 for
\* every non-empty a.
C8_Bounds ==
    pc = "scored" =>
        /\ sres.den > 0
        /\ 0 <= sres.num
        /\ sres.num <= 100 * sres.den
        /\ (sa = sb /\ sa # <<>>) => sres.num = 100 * sres.den

\* C8 witness: a string of several different characters was scored against
\* itself.
C8_Witness ==
    /\ pc = "scored"
    /\ sa = sb
    /\ Len(sa) >= 2
    /\ sa[1] # sa[2]

====
